---------------------------- MODULE Spec2Model ----------------------------
(* Model of the medical-receipt summarizer (summarize_medical_expense.py,   *)
(* the sequential variant, and summarize_medical_expense_batch.py, the      *)
(* batch variant).                                                          *)
(*                                                                          *)
(* Text.  A Python str is a sequence of one-character tokens.  The module   *)
(* is written in ASCII, so each Japanese character is named by one token:   *)
(*   "sa" "n"  : the two characters of the honorific -san                   *)
(*   "sama"    : the honorific -sama      "dono" : the honorific -dono      *)
(*   "shi"     : the honorific -shi       "sen" "sei" : the two of -sensei  *)
(*   "fu" "mei"          : the two characters of the unknown sentinel       *)
(*   "e" "ra" "chouon"   : the three characters of the error sentinel       *)
(*   "IDSP"    : U+3000, the full-width space     "yen" : the yen sign      *)
(* A Python value is a record tagged by its type in field t.                *)
EXTENDS Integers, Sequences, FiniteSets, TLC

\* ------------------------------------------------------------ bounds
\* Longest name given to normalize_name in SpecNormalize.
MaxNameLen == 3
\* Most receipt items given to the aggregation step in SpecAggregate.
MaxItems == 3
\* Most images in the folder of a run (Spec, SpecSeq).
MaxImages == 3
\* Most images in the folder of a run of SpecPool.
MaxPoolImages == 7

\* ------------------------------------------------------------ values
PyStr(s) == [t |-> "str", s |-> s]
PyInt(n) == [t |-> "int", v10 |-> 10 * n]
\* A float with one decimal digit, held in tenths (12.5 is v10 = 125).
PyFloat(tenths) == [t |-> "float", v10 |-> tenths]
PyBool(b) == [t |-> "bool", b |-> b]
PyNone == [t |-> "none"]
PyList(n) == [t |-> "list", len |-> n]

\* The sentinels of both scripts.
UNKNOWN == <<"fu", "mei">>
ERROR == <<"e", "ra", "chouon">>

\* Python truthiness, `not name`.
Truthy(v) ==
    CASE v.t = "str" -> v.s # <<>>
      [] v.t = "int" -> v.v10 # 0
      [] v.t = "float" -> v.v10 # 0
      [] v.t = "bool" -> v.b
      [] v.t = "list" -> v.len # 0
      [] OTHER -> FALSE

\* ------------------------------------------------------------ str methods
\* str.replace(ch, "") for a one-character ch.
Remove(s, ch) == SelectSeq(s, LAMBDA c : c # ch)

\* Characters str.strip() removes (str.isspace()).
Whitespace == {" ", "IDSP", "\t", "\n"}

RECURSIVE LStrip(_)
LStrip(s) ==
    IF s # <<>> /\ Head(s) \in Whitespace THEN LStrip(Tail(s)) ELSE s

RECURSIVE RStrip(_)
RStrip(s) ==
    IF s # <<>> /\ s[Len(s)] \in Whitespace
    THEN RStrip(SubSeq(s, 1, Len(s) - 1))
    ELSE s

Strip(s) == RStrip(LStrip(s))

EndsWith(s, suffix) ==
    /\ Len(s) >= Len(suffix)
    /\ SubSeq(s, Len(s) - Len(suffix) + 1, Len(s)) = suffix

\* ------------------------------------------------------------ normalize_name
honorifics == << <<"sa", "n">>, <<"sama">>, <<"dono">>, <<"shi">>, <<"sen", "sei">> >>

\* One pass of the loop body: normalized[:-len(honorific)] when it matches.
StripOneHonorific(normalized, honorific) ==
    IF EndsWith(normalized, honorific)
    THEN SubSeq(normalized, 1, Len(normalized) - Len(honorific))
    ELSE normalized

\* The for loop over honorifics, in list order, on the running value.
RECURSIVE StripHonorifics(_, _)
StripHonorifics(normalized, i) ==
    IF i > Len(honorifics) THEN normalized
    ELSE StripHonorifics(StripOneHonorific(normalized, honorifics[i]), i + 1)

\* normalize_name(name): [ok |-> TRUE, val |-> str], or [ok |-> FALSE] when
\* the call raises (name is truthy and has no .replace).
normalize_name(name) ==
    IF ~Truthy(name) THEN [ok |-> TRUE, val |-> UNKNOWN]
    ELSE IF name.t # "str" THEN [ok |-> FALSE, val |-> <<>>]
    ELSE [ok |-> TRUE,
          val |-> StripHonorifics(Strip(Remove(Remove(name.s, "IDSP"), " ")), 1)]

\* ------------------------------------------------------------ amount conversion
Digits == {"0", "1", "2", "3", "4", "5", "6", "7", "8", "9"}

DigitValue(c) ==
    CASE c = "0" -> 0 [] c = "1" -> 1 [] c = "2" -> 2 [] c = "3" -> 3
      [] c = "4" -> 4 [] c = "5" -> 5 [] c = "6" -> 6 [] c = "7" -> 7
      [] c = "8" -> 8 [] c = "9" -> 9

DigitChar(d) == <<"0", "1", "2", "3", "4", "5", "6", "7", "8", "9">>[d + 1]

RECURSIVE NatToStr(_)
NatToStr(n) ==
    IF n < 10 THEN <<DigitChar(n)>>
    ELSE Append(NatToStr(n \div 10), DigitChar(n % 10))

IntToStr(n) == IF n < 0 THEN <<"-">> \o NatToStr(-n) ELSE NatToStr(n)

\* str(value), as Python prints each type.
str(v) ==
    CASE v.t = "str" -> v.s
      [] v.t = "int" -> IntToStr(v.v10 \div 10)
      [] v.t = "float" ->
            IF v.v10 < 0
            THEN <<"-">> \o NatToStr((-v.v10) \div 10) \o <<".">>
                         \o NatToStr((-v.v10) % 10)
            ELSE NatToStr(v.v10 \div 10) \o <<".">> \o NatToStr(v.v10 % 10)
      [] v.t = "bool" -> IF v.b THEN <<"T", "r", "u", "e">>
                                ELSE <<"F", "a", "l", "s", "e">>
      [] v.t = "none" -> <<"N", "o", "n", "e">>
      [] OTHER -> <<"[", "]">>

RECURSIVE DigitsValue(_)
DigitsValue(ds) ==
    IF ds = <<>> THEN 0
    ELSE 10 * DigitsValue(SubSeq(ds, 1, Len(ds) - 1)) + DigitValue(ds[Len(ds)])

\* int(s) on a str: an optional sign, then digits that single underscores may
\* separate.  [ok |-> FALSE] is ValueError.
int(s) ==
    LET signed == s # <<>> /\ Head(s) \in {"+", "-"}
        body == IF signed THEN Tail(s) ELSE s
        wellFormed ==
            /\ body # <<>>
            /\ \A i \in 1..Len(body) : body[i] \in Digits \cup {"_"}
            /\ Head(body) \in Digits
            /\ body[Len(body)] \in Digits
            /\ \A i \in 1..(Len(body) - 1) : ~(body[i] = "_" /\ body[i + 1] = "_")
        magnitude == DigitsValue(Remove(body, "_"))
    IN IF ~wellFormed THEN [ok |-> FALSE, v |-> 0]
       ELSE [ok |-> TRUE,
             v |-> IF signed /\ Head(s) = "-" THEN -magnitude ELSE magnitude]

amount_str(amount) ==
    Strip(Remove(Remove(Remove(str(amount), ","), "yen"), " "))

\* The try/except around int(amount_str): the int, or the value unchanged.
convert_amount(amount) ==
    LET parsed == int(amount_str(amount))
    IN IF parsed.ok THEN PyInt(parsed.v) ELSE amount

convert_amounts(results) ==
    [i \in 1..Len(results) |->
        [results[i] EXCEPT !.amount = convert_amount(results[i].amount)]]

\* ------------------------------------------------------------ aggregation
\* key = f"{hospital_name}_{patient_name}"
group_key(result) == result.hospital_name \o <<"_">> \o result.patient_name

KeyIndex(combined, key) ==
    IF \E k \in 1..Len(combined) : combined[k].key = key
    THEN CHOOSE k \in 1..Len(combined) : combined[k].key = key
    ELSE 0

\* A buggy variant: the group's list is replaced, not extended.
append_to_group_overwrite(combined, result) ==
    LET key == group_key(result)
        k == KeyIndex(combined, key)
    IN IF k = 0
       THEN Append(combined, [key |-> key, receipts |-> <<result>>])
       ELSE [combined EXCEPT ![k].receipts = <<result>>]

\* combined_data[key].append(result) on a dict that keeps insertion order.
append_to_group(combined, result) ==
    LET key == group_key(result)
        k == KeyIndex(combined, key)
    IN IF k = 0
       THEN Append(combined, [key |-> key, receipts |-> <<result>>])
       ELSE [combined EXCEPT ![k].receipts = Append(@, result)]

RECURSIVE group_results(_, _)
group_results(results, combined) ==
    IF results = <<>> THEN combined
    ELSE group_results(Tail(results), append_to_group(combined, Head(results)))

\* key.split("_", 1): the parts before and after the first underscore.
split_key(key) ==
    LET i == CHOOSE j \in 1..Len(key) :
                 key[j] = "_" /\ \A h \in 1..(j - 1) : key[h] # "_"
    IN <<SubSeq(key, 1, i - 1), SubSeq(key, i + 1, Len(key))>>

\* A buggy variant: isinstance(amount, int) only.
is_number_int_only(amount) == amount.t \in {"int", "bool"}

\* isinstance(amount, (int, float)); bool is a subclass of int.
is_number(amount) == amount.t \in {"int", "float", "bool"}

\* The number's value in tenths.
Tenths(amount) ==
    IF amount.t = "bool" THEN (IF amount.b THEN 10 ELSE 0) ELSE amount.v10

\* total_amount += amount: a float once any float was added.
add_amount(total, amount) ==
    [t |-> IF total.t = "float" \/ amount.t = "float" THEN "float" ELSE "int",
     v10 |-> total.v10 + Tenths(amount)]

\* The loop over a group's receipts: <<total_amount, receipts_with_valid_amount>>.
RECURSIVE sum_receipts(_, _, _)
sum_receipts(receipts, total, valid) ==
    IF receipts = <<>> THEN <<total, valid>>
    ELSE IF is_number(Head(receipts).amount)
         THEN sum_receipts(Tail(receipts),
                           add_amount(total, Head(receipts).amount), valid + 1)
         ELSE sum_receipts(Tail(receipts), total, valid)

\* ", ".join(filenames): the names with a separator token between them.
RECURSIVE join_filenames(_)
join_filenames(names) ==
    IF Len(names) <= 1 THEN names
    ELSE <<Head(names), ", ">> \o join_filenames(Tail(names))

consolidate_group(group) ==
    LET names == split_key(group.key)
        sums == sum_receipts(group.receipts, PyInt(0), 0)
    IN [hospital_name |-> names[1],
        patient_name |-> names[2],
        medical_cure |-> "applicable",
        medicine |-> "",
        support |-> "",
        others |-> "",
        total_amount |-> sums[1],
        receipt_count |-> Len(group.receipts),
        receipts_with_amount |-> sums[2],
        filenames |-> join_filenames(
            [i \in 1..Len(group.receipts) |-> group.receipts[i].filename])]

consolidate(combined) ==
    [k \in 1..Len(combined) |-> consolidate_group(combined[k])]

\* ------------------------------------------------------------ send_api_request
MAX_RETRIES == 3
RETRY_DELAY == 2

\* What one requests.post(...), raise_for_status(), response.json() can do:
\*   ok   : a 2xx response whose decoded JSON body is `body`
\*   http : a response with an error status; raise_for_status() raises HTTPError
\*   conn : requests.post raises (ConnectionError, Timeout): no response object
OkOutcome(body) == [kind |-> "ok", status |-> 200, retry_after |-> PyNone, body |-> body]
HttpOutcome(status, retry_after) ==
    [kind |-> "http", status |-> status, retry_after |-> retry_after, body |-> PyNone]
ConnOutcome == [kind |-> "conn", status |-> 0, retry_after |-> PyNone, body |-> PyNone]

\* The local variable `response` before its first assignment.
Unbound == [bound |-> FALSE, status |-> 0, retry_after |-> PyNone]

\* The call at entry: attempt is the loop variable of range(MAX_RETRIES).
NewCall ==
    [pc |-> "running", attempt |-> 0, response |-> Unbound, issued |-> 0,
     sleeps |-> <<>>, value |-> PyNone, error |-> "none"]

\* int(response.headers.get('Retry-After', RETRY_DELAY * 2))
retry_after_seconds(response) ==
    IF response.retry_after = PyNone
    THEN [ok |-> TRUE, v |-> RETRY_DELAY * 2]
    ELSE int(response.retry_after.s)

\* The except clause (lines 151-167).  `response` is the local variable as
\* the failed attempt left it: requests.post assigned it only if it returned.
handle_failure(call, response, outcome) ==
    IF call.attempt < MAX_RETRIES - 1
    THEN IF ~response.bound
         THEN \* response.status_code on the unassigned local
              [call EXCEPT !.pc = "raised", !.error = "UnboundLocalError"]
         ELSE IF response.status = 429
         THEN LET ra == retry_after_seconds(response)
              IN IF ra.ok
                 THEN [call EXCEPT !.response = response,
                                   !.sleeps = Append(@, ra.v),
                                   !.attempt = @ + 1]
                 ELSE [call EXCEPT !.response = response, !.pc = "raised",
                                   !.error = "ValueError"]
         ELSE [call EXCEPT !.response = response,
                           !.sleeps = Append(@, RETRY_DELAY),
                           !.attempt = @ + 1]
    ELSE [call EXCEPT !.response = response, !.pc = "raised",
                      !.error = "max_retries"]

\* One pass of the for loop (lines 140-167) when the request does `outcome`.
attempt_once(call, outcome) ==
    LET issued == [call EXCEPT !.issued = @ + 1]
        response ==
            IF outcome.kind = "conn" THEN call.response
            ELSE [bound |-> TRUE, status |-> outcome.status,
                  retry_after |-> outcome.retry_after]
    IN IF outcome.kind = "ok"
       THEN [issued EXCEPT !.response = response, !.pc = "returned",
                           !.value = outcome.body]
       ELSE handle_failure(issued, response, outcome)

\* The whole call on a schedule of outcomes, one per attempt.
RECURSIVE send_api_request(_, _)
send_api_request(call, schedule) ==
    IF call.pc # "running" THEN call
    ELSE send_api_request(attempt_once(call, schedule[call.attempt + 1]), schedule)

\* ------------------------------------------------------------ response decoding
\* A decoded API response `result`: whether result["choices"][0]["message"]
\* ["content"] exists, and what the content is.  The content is described by
\* what re.search and json.loads make of it:
\*   json_object : the payload decodes to a JSON object with these three keys
\*   json_other  : the payload decodes to JSON that is not an object
\*   text        : the payload is not JSON; each field is the text that
\*                 follows "<label>:" up to the line break
\* A field is Absent when the key, or the label, is not there.
Absent == [t |-> "absent"]

Content(fmt, patient, hospital, amount) ==
    [fmt |-> fmt, patient |-> patient, hospital |-> hospital, amount |-> amount]

ResultWith(content) == [has_content |-> TRUE, content |-> content]
ResultWithoutContent ==
    [has_content |-> FALSE, content |-> Content("none", Absent, Absent, Absent)]

\* data.get(key, "unknown")
get(field) == IF field = Absent THEN PyStr(UNKNOWN) ELSE field

\* content.split(label)[1].split("\n")[0].strip(), guarded by `label in content`
label_text(field) == IF field = Absent THEN UNKNOWN ELSE Strip(field.s)

\* The decoding block shared by parse_api_response (lines 184-223) and
\* extract_info_from_image (lines 88-125).  [ok |-> FALSE] is an exception
\* other than json.JSONDecodeError leaving the block.
decode_content(result) ==
    LET failed == [ok |-> FALSE, patient_name |-> <<>>, hospital_name |-> <<>>,
                   amount |-> PyNone]
        c == result.content
    IN IF ~result.has_content THEN failed
       ELSE IF c.fmt = "json_other" THEN failed
       ELSE IF c.fmt = "json_object"
       THEN LET patient == normalize_name(get(c.patient))
                hospital == normalize_name(get(c.hospital))
            IN IF patient.ok /\ hospital.ok
               THEN [ok |-> TRUE, patient_name |-> patient.val,
                     hospital_name |-> hospital.val, amount |-> get(c.amount)]
               ELSE failed
       ELSE [ok |-> TRUE,
             patient_name |-> normalize_name(PyStr(label_text(c.patient))).val,
             hospital_name |-> normalize_name(PyStr(label_text(c.hospital))).val,
             amount |-> PyStr(label_text(c.amount))]

\* The item with the error sentinel in all three fields.
error_item(filename) ==
    [filename |-> filename, patient_name |-> ERROR, hospital_name |-> ERROR,
     amount |-> PyStr(ERROR)]

\* Batch variant: `except Exception` around the whole decoding.
parse_api_response(result, filename) ==
    LET d == decode_content(result)
    IN IF d.ok
       THEN [filename |-> filename, patient_name |-> d.patient_name,
             hospital_name |-> d.hospital_name, amount |-> d.amount]
       ELSE error_item(filename)

\* ------------------------------------------------------------ batch scheduler
\* The global BATCH_SIZE is 10 unless main() sets it from --batch-size; Spec
\* runs with 2, SpecPool with the sizes of PoolBatchSizes.
BATCH_SIZE == 2
MaxWorkersCap == 5

QueuedTask == [st |-> "queued", call |-> NewCall]

\* A buggy variant: a failed future discards what was collected before it.
collect_result_dropping(results, call, filename) ==
    IF call.pc = "returned"
    THEN Append(results, parse_api_response(call.value, filename))
    ELSE <<error_item(filename)>>

\* The body of the as_completed loop (lines 109-124) for one finished future.
collect_result(results, call, filename) ==
    IF call.pc = "returned"
    THEN Append(results, parse_api_response(call.value, filename))
    ELSE Append(results, error_item(filename))

\* ------------------------------------------------------------ sequential variant
\* extract_info_from_image (summarize_medical_expense.py lines 32-133) on one
\* image: the file is opened outside the try, one request is sent, and only
\* requests.exceptions.RequestException is caught.  kind "raise" is an
\* exception leaving the function.
extract_info_from_image(image) ==
    LET raise(error) ==
            [kind |-> "raise", error |-> error, patient_name |-> <<>>,
             hospital_name |-> <<>>, amount |-> PyNone]
        outcome == image.schedule[1]
        d == decode_content(outcome.body)
    IN IF ~image.readable THEN raise("OSError")
       ELSE IF outcome.kind # "ok"
       THEN [kind |-> "info", error |-> "none", patient_name |-> ERROR,
             hospital_name |-> ERROR, amount |-> PyStr(ERROR)]
       ELSE IF d.ok
       THEN [kind |-> "info", error |-> "none", patient_name |-> d.patient_name,
             hospital_name |-> d.hospital_name, amount |-> d.amount]
       ELSE raise("decoding")

\* ------------------------------------------------------------ state
VARIABLES
    nm_pc,        \* SpecNormalize: "in", "once", "twice"
    nm_name,      \* the str under test
    nm_once,      \* normalize_name(nm_name)
    nm_twice,     \* normalize_name(nm_once)
    ag_pc,                 \* SpecAggregate: position in the aggregation step
    individual_results,    \* list of receipt items
    combined_data,         \* insertion-ordered dict: <<[key, receipts]>>
    consolidated_results,  \* list of consolidated rows
    rq_schedule,  \* SpecRetry: what each attempt's request will do
    rq_call,      \* SpecRetry: the running send_api_request call
    images,        \* image_files: per image, what reading and requesting it does
    run_pc,        \* position of process_receipts_in_folder
    chunk_start,   \* the loop variable i of the chunk loop (0-based)
    tasks,         \* futures of the current chunk, by image index
    results,       \* the list batch_extract_info_from_images is filling
    batch_results, \* the list it returned
    summary_csv,   \* rows written to output_csv_path, or NotWritten
    detail_csv,    \* rows written to the _detail file, or NotWritten
    batch_size     \* the global BATCH_SIZE as main() left it

vars == <<nm_pc, nm_name, nm_once, nm_twice,
          ag_pc, individual_results, combined_data, consolidated_results,
          rq_schedule, rq_call,
          images, run_pc, chunk_start, tasks, results, batch_results,
          summary_csv, detail_csv, batch_size>>

run_vars == <<images, run_pc, chunk_start, tasks, results, batch_results,
              summary_csv, detail_csv, batch_size>>

\* A pool as wide as the chunk size, without the cap.
max_workers_uncapped == batch_size

\* max_workers=min(BATCH_SIZE, 5)
max_workers == IF batch_size < MaxWorkersCap THEN batch_size ELSE MaxWorkersCap

rq_vars == <<rq_schedule, rq_call>>

ag_vars == <<ag_pc, individual_results, combined_data, consolidated_results>>

nm_vars == <<nm_pc, nm_name, nm_once, nm_twice>>

\* ------------------------------------------------------------ SpecNormalize
\* Characters of the names tried: an ordinary character, every character of
\* an honorific, and the kinds of whitespace.
NameAlphabet ==
    {"A", "sa", "n", "sama", "dono", "shi", "sen", "sei", " ", "IDSP", "\t"}

RECURSIVE StringsUpTo(_, _)
StringsUpTo(alphabet, n) ==
    IF n = 0 THEN {<<>>}
    ELSE LET shorter == StringsUpTo(alphabet, n - 1)
         IN shorter \cup {Append(s, c) : s \in shorter, c \in alphabet}

NormIdle ==
    /\ nm_pc = "off"
    /\ nm_name = <<>>
    /\ nm_once = <<>>
    /\ nm_twice = <<>>

AgIdle ==
    /\ ag_pc = "off"
    /\ individual_results = <<>>
    /\ combined_data = <<>>
    /\ consolidated_results = <<>>

RqIdle ==
    /\ rq_schedule = <<>>
    /\ rq_call = [NewCall EXCEPT !.pc = "off"]

NotWritten == <<"not written">>

RunIdle ==
    /\ images = <<>>
    /\ run_pc = "off"
    /\ chunk_start = 0
    /\ batch_size = BATCH_SIZE
    /\ tasks = <<>>
    /\ results = <<>>
    /\ batch_results = <<>>
    /\ summary_csv = NotWritten
    /\ detail_csv = NotWritten

NormInit ==
    /\ AgIdle
    /\ RqIdle
    /\ RunIdle
    /\ nm_pc = "in"
    /\ nm_name \in StringsUpTo(NameAlphabet, MaxNameLen)
    /\ nm_once = <<>>
    /\ nm_twice = <<>>

NormalizeOnce ==
    /\ nm_pc = "in"
    /\ nm_once' = normalize_name(PyStr(nm_name)).val
    /\ nm_pc' = "once"
    /\ UNCHANGED <<nm_name, nm_twice, ag_vars, rq_vars, run_vars>>

NormalizeTwice ==
    /\ nm_pc = "once"
    /\ nm_twice' = normalize_name(PyStr(nm_once)).val
    /\ nm_pc' = "twice"
    /\ UNCHANGED <<nm_name, nm_once, ag_vars, rq_vars, run_vars>>

NormNext == NormalizeOnce \/ NormalizeTwice

SpecNormalize == NormInit /\ [][NormNext]_vars

\* C9: normalize_name is idempotent: for every str x,
\* normalize_name(normalize_name(x)) = normalize_name(x).
C9_NormalizeIdempotent == nm_pc = "twice" => nm_twice = nm_once

\* ------------------------------------------------------------ SpecAggregate
\* The aggregation step of process_receipts_in_folder (the same code in both
\* variants) on every list of up to MaxItems receipt items.
\* Path(image_path).name of the i-th image of the folder.
FileName(i) ==
    <<"r1.jpg", "r2.jpg", "r3.jpg", "r4.jpg", "r5.jpg", "r6.jpg", "r7.jpg",
      "r8.jpg", "r9.jpg">>[i]

\* <<hospital_name, patient_name>> as the parser can leave them: plain names,
\* and names holding "_" on either side.
NamePairs ==
    { << <<"A">>, <<"C">> >>,
      << <<"A", "_", "B">>, <<"C">> >>,
      << <<"A">>, <<"B", "_", "C">> >> }

\* Amounts as the parser can leave them: a JSON integer, text with a thousands
\* separator and a yen sign, unparseable text, the error sentinel, text of a
\* negative number, a JSON float (12.5), a JSON true.
AmountValues ==
    { PyInt(2),
      PyStr(<<"3", ",", "0", "0", "0", "yen">>),
      PyStr(<<"N", "/", "A">>),
      PyStr(ERROR),
      PyStr(<<"-", "5">>),
      PyFloat(125),
      PyBool(TRUE) }

ItemLists(n) == [1..n -> [names : NamePairs, amount : AmountValues]]

WithFileNames(list) ==
    [i \in 1..Len(list) |->
        [filename |-> FileName(i),
         patient_name |-> list[i].names[2],
         hospital_name |-> list[i].names[1],
         amount |-> list[i].amount]]

AgInit ==
    /\ NormIdle
    /\ RqIdle
    /\ RunIdle
    /\ ag_pc = "extracted"
    /\ \E n \in 0..MaxItems : \E list \in ItemLists(n) :
           individual_results = WithFileNames(list)
    /\ combined_data = <<>>
    /\ consolidated_results = <<>>

\* Lines 293-301 (batch), 187-194 (sequential).
ConvertAmounts ==
    /\ ag_pc = "extracted"
    /\ individual_results' = convert_amounts(individual_results)
    /\ ag_pc' = "converted"
    /\ UNCHANGED <<combined_data, consolidated_results, nm_vars, rq_vars, run_vars>>

\* Lines 303-309 (batch), 204-210 (sequential).
GroupResults ==
    /\ ag_pc = "converted"
    /\ combined_data' = group_results(individual_results, <<>>)
    /\ ag_pc' = "grouped"
    /\ UNCHANGED <<individual_results, consolidated_results, nm_vars, rq_vars, run_vars>>

\* Lines 311-342 (batch), 212-243 (sequential).
Consolidate ==
    /\ ag_pc = "grouped"
    /\ consolidated_results' = consolidate(combined_data)
    /\ ag_pc' = "consolidated"
    /\ UNCHANGED <<individual_results, combined_data, nm_vars, rq_vars, run_vars>>

AgNext == ConvertAmounts \/ GroupResults \/ Consolidate

SpecAggregate == AgInit /\ [][AgNext]_vars

\* Sum of f over a finite index set.
RECURSIVE SumOver(_, _)
SumOver(S, f) ==
    IF S = {} THEN 0
    ELSE LET x == CHOOSE y \in S : TRUE
         IN f[x] + SumOver(S \ {x}, f)

GroupIndices == 1..Len(combined_data)

Members(k) == combined_data[k].receipts

\* Value in tenths that a member adds when it is counted.
MemberTenths(k) ==
    [i \in 1..Len(Members(k)) |->
        IF Members(k)[i].amount.t = "bool"
        THEN (IF Members(k)[i].amount.b THEN 10 ELSE 0)
        ELSE Members(k)[i].amount.v10]

\* Members whose amount is a valid non-negative integer.
NonNegativeIntMembers(k) ==
    {i \in 1..Len(Members(k)) :
        Members(k)[i].amount.t = "int" /\ Members(k)[i].amount.v10 >= 0}

\* Members whose amount is an int or float of either sign (bool included).
NumericMembers(k) ==
    {i \in 1..Len(Members(k)) : Members(k)[i].amount.t \in {"int", "float", "bool"}}

RowFileNames(k) ==
    LET joined == consolidated_results[k].filenames
    IN SelectSeq(joined, LAMBDA tok : tok # ", ")

InputFileNames == [i \in 1..Len(individual_results) |-> individual_results[i].filename]

\* s is t with some entries left out, order kept.
RECURSIVE IsSubsequence(_, _)
IsSubsequence(s, t) ==
    IF s = <<>> THEN TRUE
    ELSE IF t = <<>> THEN FALSE
    ELSE IF Head(s) = Head(t) THEN IsSubsequence(Tail(s), Tail(t))
    ELSE IsSubsequence(s, Tail(t))

\* C4: every item is in exactly one group: receipt_count over all rows sums to
\* the number of items, each row lists receipt_count file names joined by ", "
\* in the order the items were encountered, and every input file name is in
\* exactly one row.
C4_EveryItemInExactlyOneGroup ==
    ag_pc = "consolidated" =>
        /\ SumOver(1..Len(consolidated_results),
                   [k \in 1..Len(consolidated_results) |->
                       consolidated_results[k].receipt_count])
             = Len(individual_results)
        /\ \A k \in 1..Len(consolidated_results) :
             /\ Len(RowFileNames(k)) = consolidated_results[k].receipt_count
             /\ IsSubsequence(RowFileNames(k), InputFileNames)
             /\ consolidated_results[k].filenames = join_filenames(RowFileNames(k))
        /\ \A i \in 1..Len(individual_results) :
             Cardinality({k \in 1..Len(consolidated_results) :
                 \E j \in 1..Len(RowFileNames(k)) :
                     RowFileNames(k)[j] = InputFileNames[i]}) = 1

\* Three items in two rows, the first and third item sharing a row.
C4_Witness ==
    /\ ag_pc = "consolidated"
    /\ Len(individual_results) = 3
    /\ Len(consolidated_results) = 2
    /\ consolidated_results[1].filenames
         = <<FileName(1), ", ", FileName(3)>>

\* Row that holds item i.
RowOf(i) ==
    CHOOSE k \in 1..Len(consolidated_results) :
        \E j \in 1..Len(RowFileNames(k)) : RowFileNames(k)[j] = InputFileNames[i]

\* C5: (hospital_name, patient_name) is a composite key: two items share a
\* group exactly when both names are equal, and each row carries the
\* hospital_name and patient_name of its members, underscores included.
C5_CompositeKey ==
    ag_pc = "consolidated" =>
        \A i, j \in 1..Len(individual_results) :
            /\ (RowOf(i) = RowOf(j)) <=>
                   (/\ individual_results[i].hospital_name
                         = individual_results[j].hospital_name
                    /\ individual_results[i].patient_name
                         = individual_results[j].patient_name)
            /\ consolidated_results[RowOf(i)].hospital_name
                 = individual_results[i].hospital_name
            /\ consolidated_results[RowOf(i)].patient_name
                 = individual_results[i].patient_name

\* ------------------------------------------------------------ SpecRetry
\* One send_api_request call against every schedule of attempt outcomes.
\* Retry-After: not sent, or a number of seconds.
RetryAfterHeaders == { PyNone, PyStr(<<"7">>) }

AttemptOutcomes ==
    {OkOutcome(PyNone), HttpOutcome(500, PyNone), ConnOutcome}
        \cup {HttpOutcome(429, h) : h \in RetryAfterHeaders}

RqInit ==
    /\ NormIdle
    /\ AgIdle
    /\ RunIdle
    /\ rq_schedule \in [1..MAX_RETRIES -> AttemptOutcomes]
    /\ rq_call = NewCall

\* One iteration of the loop, the sleep before the next one included.
Attempt ==
    /\ rq_call.pc = "running"
    /\ rq_call' = attempt_once(rq_call, rq_schedule[rq_call.attempt + 1])
    /\ UNCHANGED <<rq_schedule, nm_vars, ag_vars, run_vars>>

RqNext == Attempt

SpecRetry == RqInit /\ [][RqNext]_vars

Failed(k) == rq_schedule[k].kind # "ok"

RqDone == rq_call.pc \in {"returned", "raised"}

\* C2: at most 3 attempts, and all of them used before giving up: whatever the
\* kind of failure (HTTP error status, or no response at all), when the first
\* two attempts fail and the third succeeds the call returns the third
\* attempt's response after exactly 3 requests, and the call fails permanently
\* only after 3 consecutive failed attempts.
C2_AllAttemptsUsed ==
    /\ rq_call.issued <= MAX_RETRIES
    /\ (RqDone /\ Failed(1) /\ Failed(2) /\ ~Failed(3)) =>
           /\ rq_call.pc = "returned"
           /\ rq_call.issued = 3
           /\ rq_call.value = rq_schedule[3].body
    /\ rq_call.pc = "raised" =>
           /\ rq_call.issued = MAX_RETRIES
           /\ \A k \in 1..MAX_RETRIES : Failed(k)

\* The backoff the failure of one attempt calls for.
BackoffFor(outcome) ==
    IF outcome.kind = "http" /\ outcome.status = 429
    THEN IF outcome.retry_after = PyNone THEN RETRY_DELAY * 2
         ELSE int(outcome.retry_after.s).v
    ELSE RETRY_DELAY

\* C10: the backoff before each retry is decided by the attempt that just
\* failed: Retry-After (or RETRY_DELAY * 2) exactly when that attempt got an
\* HTTP 429, RETRY_DELAY otherwise, whatever an earlier attempt got; and there
\* is no sleep after the final attempt.
C10_BackoffFromLastFailure ==
    /\ Len(rq_call.sleeps) <= MAX_RETRIES - 1
    /\ \A k \in 1..Len(rq_call.sleeps) :
           /\ Failed(k)
           /\ rq_call.sleeps[k] = BackoffFor(rq_schedule[k])

\* ------------------------------------------------------------ Spec
\* A run of the batch variant's process_receipts_in_folder over a folder of
\* up to MaxImages images.  What each image does is fixed when the run starts:
\* whether encode_image can read it, what each request for it does, and what
\* the response holds.
Image(readable, schedule) == [readable |-> readable, schedule |-> schedule]

Always(outcome) == [k \in 1..MAX_RETRIES |-> outcome]

\* {"patient": "C-sama", "hospital": "A", "amount": "3,000 yen"}
ResultSama ==
    ResultWith(Content("json_object", PyStr(<<"C", "sama">>), PyStr(<<"A">>),
                       PyStr(<<"3", ",", "0", "0", "0", "yen">>)))
\* {"patient": "C", "hospital": "A", "amount": 2}
ResultPlain ==
    ResultWith(Content("json_object", PyStr(<<"C">>), PyStr(<<"A">>), PyInt(2)))
\* Not JSON: a line "patient: D", no hospital line, a line "amount: N/A".
ResultLabels ==
    ResultWith(Content("text", PyStr(<<" ", "D">>), Absent, PyStr(<<" ", "N", "/", "A">>)))

ImageKinds ==
    { Image(TRUE, Always(OkOutcome(ResultSama))),
      Image(TRUE, Always(OkOutcome(ResultPlain))),
      Image(TRUE, <<HttpOutcome(500, PyNone), HttpOutcome(429, PyStr(<<"7">>)),
                    OkOutcome(ResultLabels)>>),
      Image(TRUE, Always(HttpOutcome(500, PyNone))),
      Image(TRUE, Always(ConnOutcome)),
      Image(TRUE, Always(OkOutcome(ResultWithoutContent))),
      Image(FALSE, Always(ConnOutcome)) }

Init ==
    /\ NormIdle
    /\ RqIdle
    /\ ag_pc = "off"
    /\ individual_results = <<>>
    /\ combined_data = <<>>
    /\ consolidated_results = <<>>
    /\ \E n \in 0..MaxImages : images \in [1..n -> ImageKinds]
    /\ run_pc = "loop"
    /\ chunk_start = 0
    /\ batch_size = BATCH_SIZE
    /\ tasks = <<>>
    /\ results = <<>>
    /\ batch_results = <<>>
    /\ summary_csv = NotWritten
    /\ detail_csv = NotWritten

\* Indices of image_files[i:i+BATCH_SIZE].
Chunk ==
    {j \in 1..Len(images) : chunk_start < j /\ j <= chunk_start + batch_size}

\* Lines 281-288 and 61-105: the next chunk is cut, every image of it is
\* encoded, and one send_api_request per image is submitted to the executor.
StartChunk ==
    /\ run_pc = "loop"
    /\ chunk_start < Len(images)
    /\ \A j \in Chunk : images[j].readable
    /\ tasks' = [j \in Chunk |-> QueuedTask]
    /\ results' = <<>>
    /\ run_pc' = "collecting"
    /\ UNCHANGED <<images, batch_size, chunk_start, batch_results, summary_csv, detail_csv,
                   nm_vars, ag_vars, rq_vars>>

\* Line 72: encode_image raises on an image it cannot open; nothing catches it.
EncodeFails ==
    /\ run_pc = "loop"
    /\ chunk_start < Len(images)
    /\ \E j \in Chunk : ~images[j].readable
    /\ run_pc' = "aborted"
    /\ UNCHANGED <<images, batch_size, chunk_start, tasks, results, batch_results,
                   summary_csv, detail_csv, nm_vars, ag_vars, rq_vars>>

Running == {j \in DOMAIN tasks : tasks[j].st = "running"}

\* A pool thread takes the oldest queued request.
WorkerStart(j) ==
    /\ run_pc = "collecting"
    /\ tasks[j].st = "queued"
    /\ Cardinality(Running) < max_workers
    /\ \A h \in DOMAIN tasks : h < j => tasks[h].st # "queued"
    /\ tasks' = [tasks EXCEPT ![j].st = "running"]
    /\ UNCHANGED <<images, batch_size, run_pc, chunk_start, results, batch_results,
                   summary_csv, detail_csv, nm_vars, ag_vars, rq_vars>>

\* One iteration of send_api_request's loop in the thread of request j; the
\* future is done when the call returns or raises.
WorkerAttempt(j) ==
    /\ run_pc = "collecting"
    /\ tasks[j].st = "running"
    /\ LET call == attempt_once(tasks[j].call,
                                images[j].schedule[tasks[j].call.attempt + 1])
       IN tasks' = [tasks EXCEPT ![j].call = call,
                                 ![j].st = IF call.pc = "running"
                                           THEN "running" ELSE "done"]
    /\ UNCHANGED <<images, batch_size, run_pc, chunk_start, results, batch_results,
                   summary_csv, detail_csv, nm_vars, ag_vars, rq_vars>>

\* as_completed hands over a finished future; lines 109-124 turn it into an item.
Collect(j) ==
    /\ run_pc = "collecting"
    /\ tasks[j].st = "done"
    /\ results' = collect_result(results, tasks[j].call, FileName(j))
    /\ tasks' = [tasks EXCEPT ![j].st = "collected"]
    /\ UNCHANGED <<images, batch_size, run_pc, chunk_start, batch_results,
                   summary_csv, detail_csv, nm_vars, ag_vars, rq_vars>>

\* Line 126: every future was handed over; the executor shuts down.
ReturnBatch ==
    /\ run_pc = "collecting"
    /\ \A j \in DOMAIN tasks : tasks[j].st = "collected"
    /\ batch_results' = results
    /\ run_pc' = "returned"
    /\ UNCHANGED <<images, batch_size, chunk_start, tasks, results,
                   summary_csv, detail_csv, nm_vars, ag_vars, rq_vars>>

\* Line 291, and the loop's step.
ExtendResults ==
    /\ run_pc = "returned"
    /\ individual_results' = individual_results \o batch_results
    /\ chunk_start' = chunk_start + batch_size
    /\ run_pc' = "loop"
    /\ UNCHANGED <<images, batch_size, tasks, results, batch_results, summary_csv, detail_csv,
                   ag_pc, combined_data, consolidated_results, nm_vars, rq_vars>>

\* Lines 293-365: amounts converted, items grouped, rows built, both files
\* written.
Finish ==
    /\ run_pc = "loop"
    /\ chunk_start >= Len(images)
    /\ individual_results' = convert_amounts(individual_results)
    /\ combined_data' = group_results(individual_results', <<>>)
    /\ consolidated_results' = consolidate(combined_data')
    /\ summary_csv' = consolidated_results'
    /\ detail_csv' = individual_results'
    /\ run_pc' = "done"
    /\ UNCHANGED <<images, batch_size, chunk_start, tasks, results, batch_results,
                   ag_pc, nm_vars, rq_vars>>

Next ==
    \/ StartChunk
    \/ EncodeFails
    \/ \E j \in DOMAIN tasks : WorkerStart(j)
    \/ \E j \in DOMAIN tasks : WorkerAttempt(j)
    \/ \E j \in DOMAIN tasks : Collect(j)
    \/ ReturnBatch
    \/ ExtendResults
    \/ Finish

Spec == Init /\ [][Next]_vars

\* Image j alone: the outcome of its send_api_request on its schedule, and
\* the item that outcome stands for.
AloneCall(j) == send_api_request(NewCall, images[j].schedule)

AloneItem(j) ==
    IF AloneCall(j).pc = "returned"
    THEN parse_api_response(AloneCall(j).value, FileName(j))
    ELSE error_item(FileName(j))

\* Every request of image j fails.
PermanentlyFails(j) == \A k \in 1..MAX_RETRIES : images[j].schedule[k].kind # "ok"

ItemsOf(list, j) == {k \in 1..Len(list) : list[k].filename = FileName(j)}

\* C1: whatever each image's extraction call does, the list that
\* batch_extract_info_from_images returns holds exactly one item per image of
\* the chunk, under that image's file name; an image whose extraction fails
\* permanently has the error sentinel in all three fields; and every image's
\* item is the one that image yields on its own, whatever its siblings did.
C1_OneItemPerImage ==
    run_pc = "returned" =>
        /\ Len(batch_results) = Cardinality(Chunk)
        /\ \A j \in Chunk :
             /\ Cardinality(ItemsOf(batch_results, j)) = 1
             /\ \A k \in ItemsOf(batch_results, j) :
                  /\ batch_results[k] = AloneItem(j)
                  /\ PermanentlyFails(j) =>
                       /\ batch_results[k].patient_name = ERROR
                       /\ batch_results[k].hospital_name = ERROR
                       /\ batch_results[k].amount = PyStr(ERROR)

\* A chunk of two returned: one image failed permanently after three requests
\* and was collected first, its sibling was extracted.
C1_Witness ==
    /\ run_pc = "returned"
    /\ Cardinality(Chunk) = 2
    /\ \E j, h \in Chunk :
         /\ PermanentlyFails(j)
         /\ tasks[j].call.issued = MAX_RETRIES
         /\ batch_results[1] = error_item(FileName(j))
         /\ batch_results[2].filename = FileName(h)
         /\ batch_results[2].patient_name = <<"C">>
         /\ batch_results[2].amount = PyStr(<<"3", ",", "0", "0", "0", "yen">>)

RunEnded == run_pc \in {"done", "aborted"}

\* C6: a run over a non-empty image set ends with both files written, the
\* detail file with one row per image, whatever each image did (unreadable
\* file, every request failing, malformed response).
C6_BothFilesWritten ==
    (RunEnded /\ Len(images) > 0) =>
        /\ summary_csv # NotWritten
        /\ detail_csv # NotWritten
        /\ Len(detail_csv) = Len(images)

\* The items in input enumeration order, converted.
ItemsInInputOrder ==
    convert_amounts([j \in 1..Len(images) |-> AloneItem(j)])

\* C8: with the images and their extraction results fixed, the output does not
\* depend on the order in which the concurrent calls complete: the detail rows
\* are in input enumeration order, and the consolidated rows, with the file
\* names inside each, are the ones that order gives.
C8_OutputIndependentOfCompletionOrder ==
    run_pc = "done" =>
        /\ \A k \in 1..Len(detail_csv) : detail_csv[k].filename = FileName(k)
        /\ summary_csv = consolidate(group_results(ItemsInInputOrder, <<>>))

\* ------------------------------------------------------------ SpecSeq
\* A run of the sequential variant's process_receipts_in_folder.  Only the
\* first outcome of an image's schedule is used: there is no retry.
\* A JSON array, and an object whose patient name is the number 5.
ResultJsonArray == ResultWith(Content("json_other", Absent, Absent, Absent))
ResultNameNumber ==
    ResultWith(Content("json_object", PyInt(5), PyStr(<<"A">>), PyInt(2)))

SeqImageKinds ==
    ImageKinds \cup
        { Image(TRUE, Always(OkOutcome(ResultLabels))),
          Image(TRUE, Always(OkOutcome(ResultJsonArray))),
          Image(TRUE, Always(OkOutcome(ResultNameNumber))) }

SeqInit ==
    /\ NormIdle
    /\ RqIdle
    /\ ag_pc = "off"
    /\ individual_results = <<>>
    /\ combined_data = <<>>
    /\ consolidated_results = <<>>
    /\ \E n \in 0..MaxImages : images \in [1..n -> SeqImageKinds]
    /\ run_pc = "loop"
    /\ chunk_start = 0
    /\ batch_size = BATCH_SIZE
    /\ tasks = <<>>
    /\ results = <<>>
    /\ batch_results = <<>>
    /\ summary_csv = NotWritten
    /\ detail_csv = NotWritten

\* The image the for loop is at.
SeqPosition == Len(individual_results) + 1

\* Lines 181-202: one image is extracted, its amount converted, its item
\* appended.
ProcessImage ==
    /\ run_pc = "loop"
    /\ SeqPosition <= Len(images)
    /\ LET info == extract_info_from_image(images[SeqPosition])
       IN /\ info.kind = "info"
          /\ individual_results' =
                 Append(individual_results,
                        [filename |-> FileName(SeqPosition),
                         patient_name |-> info.patient_name,
                         hospital_name |-> info.hospital_name,
                         amount |-> convert_amount(info.amount)])
    /\ UNCHANGED <<ag_pc, combined_data, consolidated_results, run_vars,
                   nm_vars, rq_vars>>

\* Line 185: an exception leaves extract_info_from_image; nothing catches it.
ProcessImageRaises ==
    /\ run_pc = "loop"
    /\ SeqPosition <= Len(images)
    /\ extract_info_from_image(images[SeqPosition]).kind = "raise"
    /\ run_pc' = "aborted"
    /\ UNCHANGED <<images, batch_size, chunk_start, tasks, results, batch_results,
                   summary_csv, detail_csv, nm_vars, ag_vars, rq_vars>>

\* Lines 204-266: items grouped, rows built, both files written.
SeqFinish ==
    /\ run_pc = "loop"
    /\ SeqPosition > Len(images)
    /\ combined_data' = group_results(individual_results, <<>>)
    /\ consolidated_results' = consolidate(combined_data')
    /\ summary_csv' = consolidated_results'
    /\ detail_csv' = individual_results
    /\ run_pc' = "done"
    /\ UNCHANGED <<images, batch_size, chunk_start, tasks, results, batch_results,
                   ag_pc, individual_results, nm_vars, rq_vars>>

SeqNext == ProcessImage \/ ProcessImageRaises \/ SeqFinish

SpecSeq == SeqInit /\ [][SeqNext]_vars

\* The response of image j came back and decoding it meets an unexpected
\* error: no choices/message/content, a payload that is not an object, or a
\* name that is not a string.
UnexpectedDecodingError(j) ==
    /\ images[j].readable
    /\ images[j].schedule[1].kind = "ok"
    /\ LET result == images[j].schedule[1].body
       IN \/ ~result.has_content
          \/ result.content.fmt = "json_other"
          \/ /\ result.content.fmt = "json_object"
             /\ \E name \in {result.content.patient, result.content.hospital} :
                    name.t \in {"int", "float", "bool", "list"} /\ Truthy(name)

\* C7: an unexpected error while decoding a response yields an item with the
\* error sentinel in all three fields and never leaves the per-item step
\* (here: the sequential variant's extract_info_from_image).
C7_DecodingErrorsBecomeErrorItems ==
    /\ \A j \in 1..Len(individual_results) :
           UnexpectedDecodingError(j) =>
               /\ individual_results[j].patient_name = ERROR
               /\ individual_results[j].hospital_name = ERROR
               /\ individual_results[j].amount = PyStr(ERROR)
    /\ (run_pc = "aborted" /\ SeqPosition <= Len(images)) =>
           ~UnexpectedDecodingError(SeqPosition)

\* ------------------------------------------------------------ SpecPool
\* Runs of the batch variant with chunks wider than the pool: main() has set
\* BATCH_SIZE from --batch-size, every image is readable, and at most one
\* image has every request fail.
PoolBatchSizes == {3, 6}

PoolInit ==
    /\ NormIdle
    /\ RqIdle
    /\ ag_pc = "off"
    /\ individual_results = <<>>
    /\ combined_data = <<>>
    /\ consolidated_results = <<>>
    /\ batch_size \in PoolBatchSizes
    /\ \E n \in 0..MaxPoolImages : \E failing \in 0..n :
           images = [j \in 1..n |->
                        IF j = failing
                        THEN Image(TRUE, Always(HttpOutcome(500, PyNone)))
                        ELSE Image(TRUE, Always(OkOutcome(ResultPlain)))]
    /\ run_pc = "loop"
    /\ chunk_start = 0
    /\ tasks = <<>>
    /\ results = <<>>
    /\ batch_results = <<>>
    /\ summary_csv = NotWritten
    /\ detail_csv = NotWritten

PoolNext ==
    \/ StartChunk
    \/ \E j \in DOMAIN tasks : WorkerStart(j)
    \/ \E j \in DOMAIN tasks : WorkerAttempt(j)
    \/ \E j \in DOMAIN tasks : Collect(j)
    \/ ReturnBatch
    \/ ExtendResults
    \/ Finish

SpecPool == PoolInit /\ [][PoolNext]_vars

\* Requests a pool thread is executing.
InFlight == {j \in DOMAIN tasks : tasks[j].st = "running"}

\* Requests handed to a pool thread so far.
Issued == {j \in DOMAIN tasks : tasks[j].st # "queued"}

\* Number of the chunk image j falls in, and the images of earlier chunks.
ChunkOf(j) == (j - 1) \div batch_size

EarlierImages(j) == 1..(ChunkOf(j) * batch_size)

\* C11: at every moment at most min(BATCH_SIZE, 5) extraction requests are in
\* flight, all of them of one chunk; a chunk has at most BATCH_SIZE images;
\* and no request of a chunk is issued before the result of every image of
\* the chunks before it has been collected.
C11_BoundedSequentialChunks ==
    /\ Cardinality(InFlight)
         <= (IF batch_size < MaxWorkersCap THEN batch_size ELSE MaxWorkersCap)
    /\ \A j, h \in InFlight : ChunkOf(j) = ChunkOf(h)
    /\ Cardinality(DOMAIN tasks) <= batch_size
    /\ \A j, h \in DOMAIN tasks : ChunkOf(j) = ChunkOf(h)
    /\ \A j \in Issued : \A h \in EarlierImages(j) :
           Cardinality(ItemsOf(individual_results, h)) = 1

\* A chunk of six with five requests in flight and the sixth waiting for a
\* pool thread.
C11_Witness ==
    /\ batch_size = 6
    /\ Cardinality(InFlight) = MaxWorkersCap
    /\ \E j \in DOMAIN tasks : tasks[j].st = "queued"

\* A request of the second chunk in flight, the first chunk's six results
\* collected.
C11_WitnessSecondChunk ==
    /\ batch_size = 6
    /\ \E j \in InFlight : ChunkOf(j) = 1
    /\ Len(individual_results) = 6

=============================================================================
